---------------------------- MODULE Spec2Model ----------------------------
(***************************************************************************)
(* The example-generation procedures of three SEACrowd dataset loaders:    *)
(*   burapha_th  (directory-encoded labels, image-text),                   *)
(*   cub_bahasa  (four joined tables, image-text with captions),           *)
(*   mswc        (parquet tables, speech-text).                            *)
(* A run draws a configuration and an extracted download, calls            *)
(* _split_generators once, and then drives each split's generator          *)
(* (_generate_examples) one next() at a time, recording every yielded      *)
(* (key, example) pair.  The generators are driven directly with the       *)
(* gen_kwargs _split_generators returned, so a configuration whose schema  *)
(* string is not declared reaches _generate_examples too.                  *)
(*                                                                         *)
(* Python values: str is a TLA+ string, a list is a sequence, a dict with  *)
(* fixed keys is a record, an insertion-ordered dict is a sequence of      *)
(* [key, value] records, None is the value None.  A directory name is kept *)
(* as its sequence of characters so that str.split can be computed.        *)
(***************************************************************************)
EXTENDS Integers, Sequences, FiniteSets, TLC

VARIABLES
  loader,      \* which loader's builder is running
  schema,      \* self.config.schema
  task,        \* burapha_th: self.config.subset_id.split("_")[2]
  fs,          \* burapha_th: the extracted train and test directories
  tables,      \* cub_bahasa: images.txt, image_class_labels.txt, captions json, train_test_split.txt
  parquet,     \* mswc: the parquet tables behind each split's paths
  pc,          \* "ready" | "idle" | "running" | "error"
  generators,  \* what _split_generators returned
  cur,         \* number of the split generator being (or last) driven
  gen,         \* local variables of the running generator
  out,         \* out[k]: the (key, example) pairs generator k has yielded
  status,      \* status[k]: "pending" | "running" | "returned" | "raised"
  err          \* the exception that ended the run, or "none"

vars == <<loader, schema, task, fs, tables, parquet, pc, generators, cur, gen, out, status, err>>

---------------------------------------------------------------------------
(* Bounds of the model *)

\* directories listed under a split directory (burapha_th)
MaxDirs == 2
\* files listed under one class directory (burapha_th)
MaxFiles == 2
\* lines of images.txt (cub_bahasa)
MaxImages == 2
\* captions of one item of the captions json (cub_bahasa)
MaxCaptions == 2
\* parquet paths of one split (mswc)
MaxPaths == 2
\* rows of one parquet table (mswc)
MaxRows == 2

---------------------------------------------------------------------------
(* Python primitives *)

None == <<"None">>

\* a Python int and a Python str stored where either may occur (a label list)
PyInt(n) == <<"int", n>>

PyStr(s) == <<"str", s>>

Digits == <<"0", "1", "2", "3", "4", "5", "6", "7", "8", "9">>

RECURSIVE Str(_)
\* str(n) for n >= 0
Str(n) ==
  IF n < 10 THEN Digits[n + 1] ELSE Str(n \div 10) \o Digits[(n % 10) + 1]

RECURSIVE Zfill(_, _)
\* s.zfill(w)
Zfill(s, w) ==
  IF Len(s) >= w THEN s ELSE Zfill("0" \o s, w)

\* whether v occurs in list
Contains(list, v) ==
  \E i \in 1..Len(list) : list[i] = v

\* list.index(v), 0-based, for a v that occurs (otherwise Python raises ValueError)
Index(list, v) ==
  (CHOOSE i \in 1..Len(list) : list[i] = v /\ \A j \in 1..(i - 1) : list[j] # v) - 1

RECURSIVE JoinChars(_)
\* the str made of a sequence of characters
JoinChars(cs) ==
  IF cs = <<>> THEN "" ELSE Head(cs) \o JoinChars(Tail(cs))

RECURSIVE FirstSegment(_, _)
\* name.split(sep)[0] on a sequence of characters
FirstSegment(cs, sep) ==
  IF cs = <<>> \/ Head(cs) = sep THEN <<>> ELSE <<Head(cs)>> \o FirstSegment(Tail(cs), sep)

\* os.path.join(a, b)
PathJoin(a, b) == a \o "/" \o b

\* every sequence over S of length at most n
SeqUpTo(S, n) == UNION {[1..k -> S] : k \in 0..n}

\* a sequence without repeated elements
NoRepeat(s) == \A i, j \in 1..Len(s) : i # j => s[i] # s[j]

RECURSIVE SumSeq(_)
SumSeq(s) ==
  IF s = <<>> THEN 0 ELSE Head(s) + SumSeq(Tail(s))

\* the schema strings of the loader's BUILDER_CONFIGS
DeclaredSchemas(l) ==
  CASE l = "burapha_th" -> {"source", "seacrowd_imtext"}
    [] l = "cub_bahasa" -> {"source", "seacrowd_imtext"}
    [] OTHER -> {"source", "seacrowd_sptext"}

\* schema strings a configuration may carry: the declared ones and an undeclared one
SchemaStrings(l) == DeclaredSchemas(l) \cup {"bogus_schema"}

---------------------------------------------------------------------------
(* burapha_th *)

NumChrDig == 78

NumSyl == 320

label_chr_dig == [i \in 1..NumChrDig |-> Zfill(Str(i - 1), 2)]

label_syl == [i \in 1..NumSyl |-> Zfill(Str(i - 1), 3)]

BuraphaSubsets == {"character", "digit", "syllable"}

\* the class names _info declares for the task, and the list the generator looks labels up in
BuraphaLabelNames(t) ==
  IF t = "character" \/ t = "digit" THEN label_chr_dig ELSE label_syl

\* dl_manager.download_and_extract(_URLS[task])[split]
BuraphaLocalPath(t, split) == "extracted/" \o t \o "/" \o split

\* train_path / test_path of _split_generators
BuraphaSplitPath(t, split) ==
  IF t \in {"character", "digit"}
    THEN PathJoin(BuraphaLocalPath(t, split), split)
    ELSE PathJoin(BuraphaLocalPath(t, split), split \o "-ori")

\* names of class directories that may be found in the download
DirNames ==
  { <<"0", "0", "-", "a">>,
    <<"0", "0", "-", "b">>,
    <<"0", "1", "-", "c">>,
    <<"0", "7", "7", "-", "a", "-", "b">> }

FileName(k) == Str(k) \o ".png"

\* os.listdir of a class directory holding n files
FileList(n) == [k \in 1..n |-> FileName(k)]

\* what os.listdir can return for a split directory: its class directories in any order,
\* each with the listing of its files
Listings ==
  { [k \in 1..Len(ds) |-> [name |-> ds[k], files |-> FileList(ns[k])]] :
      <<ds, ns>> \in { p \in SeqUpTo(DirNames, MaxDirs) \X SeqUpTo(0..MaxFiles, MaxDirs) :
                        Len(p[1]) = Len(p[2]) /\ NoRepeat(p[1]) } }

\* the test directory, when present, holds one class directory with one file
TestListing == << [name |-> <<"0", "0", "-", "a">>, files |-> <<"t.png">>] >>

\* data_pair[label] = file_names on an insertion-ordered dict
DictSet(d, k, v) ==
  IF \E i \in 1..Len(d) : d[i].key = k
    THEN [i \in 1..Len(d) |-> IF d[i].key = k THEN [key |-> k, value |-> v] ELSE d[i]]
    ELSE Append(d, [key |-> k, value |-> v])

\* the file_names list built for one class directory
ScanFiles(root, dir) ==
  [k \in 1..Len(dir.files) |-> PathJoin(PathJoin(root, JoinChars(dir.name)), dir.files[k])]

RECURSIVE ScanDirs(_, _, _)
\* the loop over os.listdir(train_path), from data_pair = d
ScanDirs(root, dirs, d) ==
  IF dirs = <<>> THEN d
  ELSE ScanDirs(root, Tail(dirs),
                DictSet(d, JoinChars(FirstSegment(Head(dirs).name, "-")), ScanFiles(root, Head(dirs))))

BuraphaSplitGeneratorList(data_pair) ==
  << [name |-> "train", gen_kwargs |-> [filepath |-> data_pair, split |-> "train"]],
     [name |-> "test", gen_kwargs |-> [filepath |-> data_pair, split |-> "test"]] >>

\* the extracted downloads that may be on disk: fs maps each existing split directory to its
\* listing; a directory that is missing from the download is not in DOMAIN fs
BuraphaFileSystems(t) ==
  { [p \in ({BuraphaSplitPath(t, "train")} \cap tr) \cup ({BuraphaSplitPath(t, "test")} \cap te) |->
       IF p = BuraphaSplitPath(t, "train") THEN l ELSE TestListing] :
      <<tr, te, l>> \in { q \in (SUBSET {BuraphaSplitPath(t, "train")})
                                \X (SUBSET {BuraphaSplitPath(t, "test")}) \X Listings :
                            q[1] = {} => q[3] = <<>> } }

\* BuraphaSourceExample with a fault: the label code counted from 1
BuraphaSourceExampleFromOne(counter, img, key, t) ==
  [ id |-> Str(counter),
    image_paths |-> img,
    label |-> << PyInt(Index(BuraphaLabelNames(t), key) + 1) >> ]

\* the example of the source schema
BuraphaSourceExample(counter, img, key, t) ==
  [ id |-> Str(counter),
    image_paths |-> img,
    label |-> << PyInt(Index(BuraphaLabelNames(t), key)) >> ]

\* BuraphaImtextExample with a fault: the label code counted from 1
BuraphaImtextExampleFromOne(counter, img, key, t) ==
  [ id |-> Str(counter),
    image_paths |-> <<img>>,
    texts |-> None,
    metadata |-> [ context |-> None,
                   labels |-> << PyInt(Index(BuraphaLabelNames(t), key) + 1) >> ] ]

\* the example of the seacrowd_imtext schema
BuraphaImtextExample(counter, img, key, t) ==
  [ id |-> Str(counter),
    image_paths |-> <<img>>,
    texts |-> None,
    metadata |-> [ context |-> None,
                   labels |-> << PyInt(Index(BuraphaLabelNames(t), key)) >> ] ]

\* counter += 1 after a yield
BuraphaCounterStep(counter) == counter + 1

RECURSIVE BuraphaRunSkip(_, _, _, _, _, _)
\* BuraphaRun with a fault: an item whose label is not in the enumeration is skipped and
\* generation goes on with the next item
BuraphaRunSkip(d, sch, t, ki, fi, counter) ==
  IF ki > Len(d)
    THEN [kind |-> "return", ki |-> ki, fi |-> fi, counter |-> counter, example |-> None]
  ELSE IF fi > Len(d[ki].value)
    THEN BuraphaRunSkip(d, sch, t, ki + 1, 1, counter)
  ELSE IF sch \in {"source", "seacrowd_imtext"} /\ ~Contains(BuraphaLabelNames(t), d[ki].key)
    THEN BuraphaRunSkip(d, sch, t, ki, fi + 1, counter)
  ELSE IF sch = "source"
    THEN [kind |-> "yield", ki |-> ki, fi |-> fi, counter |-> counter,
          example |-> BuraphaSourceExample(counter, d[ki].value[fi], d[ki].key, t)]
  ELSE IF sch = "seacrowd_imtext"
    THEN [kind |-> "yield", ki |-> ki, fi |-> fi, counter |-> counter,
          example |-> BuraphaImtextExample(counter, d[ki].value[fi], d[ki].key, t)]
  ELSE BuraphaRunSkip(d, sch, t, ki, fi + 1, BuraphaCounterStep(counter))

RECURSIVE BuraphaRunFirstFile(_, _, _, _, _, _)
\* BuraphaRun with a fault: the inner loop ends after the first file of a label
BuraphaRunFirstFile(d, sch, t, ki, fi, counter) ==
  IF ki > Len(d)
    THEN [kind |-> "return", ki |-> ki, fi |-> fi, counter |-> counter, example |-> None]
  ELSE IF fi > Len(d[ki].value) \/ fi > 1
    THEN BuraphaRunFirstFile(d, sch, t, ki + 1, 1, counter)
  ELSE IF sch = "source"
    THEN IF ~Contains(BuraphaLabelNames(t), d[ki].key)
           THEN [kind |-> "raise", ki |-> ki, fi |-> fi, counter |-> counter, example |-> "ValueError"]
           ELSE [kind |-> "yield", ki |-> ki, fi |-> fi, counter |-> counter,
                 example |-> BuraphaSourceExample(counter, d[ki].value[fi], d[ki].key, t)]
  ELSE IF sch = "seacrowd_imtext"
    THEN IF ~Contains(BuraphaLabelNames(t), d[ki].key)
           THEN [kind |-> "raise", ki |-> ki, fi |-> fi, counter |-> counter, example |-> "ValueError"]
           ELSE [kind |-> "yield", ki |-> ki, fi |-> fi, counter |-> counter,
                 example |-> BuraphaImtextExample(counter, d[ki].value[fi], d[ki].key, t)]
  ELSE BuraphaRunFirstFile(d, sch, t, ki, fi + 1, BuraphaCounterStep(counter))

RECURSIVE BuraphaRun(_, _, _, _, _, _)
\* the body of _generate_examples run from the head of the inner loop at item fi of entry ki
\* until it yields, raises or returns
BuraphaRun(d, sch, t, ki, fi, counter) ==
  IF ki > Len(d)
    THEN [kind |-> "return", ki |-> ki, fi |-> fi, counter |-> counter, example |-> None]
  ELSE IF fi > Len(d[ki].value)
    THEN BuraphaRun(d, sch, t, ki + 1, 1, counter)
  ELSE IF sch = "source"
    THEN IF ~Contains(BuraphaLabelNames(t), d[ki].key)
           THEN [kind |-> "raise", ki |-> ki, fi |-> fi, counter |-> counter, example |-> "ValueError"]
           ELSE [kind |-> "yield", ki |-> ki, fi |-> fi, counter |-> counter,
                 example |-> BuraphaSourceExample(counter, d[ki].value[fi], d[ki].key, t)]
  ELSE IF sch = "seacrowd_imtext"
    THEN IF ~Contains(BuraphaLabelNames(t), d[ki].key)
           THEN [kind |-> "raise", ki |-> ki, fi |-> fi, counter |-> counter, example |-> "ValueError"]
           ELSE [kind |-> "yield", ki |-> ki, fi |-> fi, counter |-> counter,
                 example |-> BuraphaImtextExample(counter, d[ki].value[fi], d[ki].key, t)]
  ELSE BuraphaRun(d, sch, t, ki, fi + 1, BuraphaCounterStep(counter))

\* BuraphaThDataset._split_generators
BuraphaSplitGenerators ==
  /\ loader = "burapha_th"
  /\ pc = "ready"
  /\ LET train_path == BuraphaSplitPath(task, "train")
     IN IF train_path \notin DOMAIN fs
          THEN /\ pc' = "error"
               /\ err' = "FileNotFoundError"
               /\ UNCHANGED <<generators, out, status>>
          ELSE /\ generators' = BuraphaSplitGeneratorList(ScanDirs(train_path, fs[train_path], <<>>))
               /\ out' = [k \in 1..2 |-> <<>>]
               /\ status' = [k \in 1..2 |-> "pending"]
               /\ pc' = "idle"
               /\ err' = "none"
  /\ UNCHANGED <<loader, schema, task, fs, tables, parquet, cur, gen>>

\* the builder calls _generate_examples(**gen_kwargs) of the next split generator
BuraphaStart ==
  /\ loader = "burapha_th"
  /\ pc = "idle"
  /\ cur < Len(generators)
  /\ cur' = cur + 1
  /\ gen' = [ kwargs |-> generators[cur + 1].gen_kwargs,
              ki |-> 1, fi |-> 1, counter |-> 0, suspended |-> FALSE ]
  /\ status' = [status EXCEPT ![cur + 1] = "running"]
  /\ pc' = "running"
  /\ UNCHANGED <<loader, schema, task, fs, tables, parquet, generators, out, err>>

\* one next() on the running generator of BuraphaThDataset._generate_examples
BuraphaNext ==
  /\ loader = "burapha_th"
  /\ pc = "running"
  /\ LET r == IF gen.suspended
                THEN BuraphaRun(gen.kwargs.filepath, schema, task, gen.ki, gen.fi + 1,
                                BuraphaCounterStep(gen.counter))
                ELSE BuraphaRun(gen.kwargs.filepath, schema, task, gen.ki, gen.fi, gen.counter)
     IN /\ gen' = [gen EXCEPT !.ki = r.ki, !.fi = r.fi, !.counter = r.counter,
                              !.suspended = (r.kind = "yield")]
        /\ out' = IF r.kind = "yield"
                    THEN [out EXCEPT ![cur] = Append(@, <<r.counter, r.example>>)]
                    ELSE out
        /\ status' = [status EXCEPT ![cur] =
                        CASE r.kind = "yield" -> "running"
                          [] r.kind = "raise" -> "raised"
                          [] OTHER -> "returned"]
        /\ pc' = CASE r.kind = "yield" -> "running"
                   [] r.kind = "raise" -> "error"
                   [] OTHER -> "idle"
        /\ err' = IF r.kind = "raise" THEN r.example ELSE err
  /\ UNCHANGED <<loader, schema, task, fs, tables, parquet, generators, cur>>

NextBurapha == BuraphaSplitGenerators \/ BuraphaStart \/ BuraphaNext

InitBurapha ==
  /\ loader = "burapha_th"
  /\ schema \in SchemaStrings("burapha_th")
  /\ task \in BuraphaSubsets
  /\ fs \in BuraphaFileSystems(task)
  /\ tables = <<>>
  /\ parquet = <<>>
  /\ pc = "ready"
  /\ generators = <<>>
  /\ cur = 0
  /\ gen = <<>>
  /\ out = <<>>
  /\ status = <<>>
  /\ err = "none"

SpecBurapha == InitBurapha /\ [][NextBurapha]_vars



---------------------------------------------------------------------------
(* cub_bahasa *)

IMAGE_CLASS ==
  << "001.Black_footed_Albatross", "002.Laysan_Albatross", "003.Sooty_Albatross",
     "004.Groove_billed_Ani", "005.Crested_Auklet", "006.Least_Auklet",
     "007.Parakeet_Auklet", "008.Rhinoceros_Auklet", "009.Brewer_Blackbird",
     "010.Red_winged_Blackbird", "011.Rusty_Blackbird", "012.Yellow_headed_Blackbird",
     "013.Bobolink", "014.Indigo_Bunting", "015.Lazuli_Bunting",
     "016.Painted_Bunting", "017.Cardinal", "018.Spotted_Catbird",
     "019.Gray_Catbird", "020.Yellow_breasted_Chat", "021.Eastern_Towhee",
     "022.Chuck_will_Widow", "023.Brandt_Cormorant", "024.Red_faced_Cormorant",
     "025.Pelagic_Cormorant", "026.Bronzed_Cowbird", "027.Shiny_Cowbird",
     "028.Brown_Creeper", "029.American_Crow", "030.Fish_Crow",
     "031.Black_billed_Cuckoo", "032.Mangrove_Cuckoo", "033.Yellow_billed_Cuckoo",
     "034.Gray_crowned_Rosy_Finch", "035.Purple_Finch", "036.Northern_Flicker",
     "037.Acadian_Flycatcher", "038.Great_Crested_Flycatcher", "039.Least_Flycatcher",
     "040.Olive_sided_Flycatcher", "041.Scissor_tailed_Flycatcher", "042.Vermilion_Flycatcher",
     "043.Yellow_bellied_Flycatcher", "044.Frigatebird", "045.Northern_Fulmar",
     "046.Gadwall", "047.American_Goldfinch", "048.European_Goldfinch",
     "049.Boat_tailed_Grackle", "050.Eared_Grebe", "051.Horned_Grebe",
     "052.Pied_billed_Grebe", "053.Western_Grebe", "054.Blue_Grosbeak",
     "055.Evening_Grosbeak", "056.Pine_Grosbeak", "057.Rose_breasted_Grosbeak",
     "058.Pigeon_Guillemot", "059.California_Gull", "060.Glaucous_winged_Gull",
     "061.Heermann_Gull", "062.Herring_Gull", "063.Ivory_Gull",
     "064.Ring_billed_Gull", "065.Slaty_backed_Gull", "066.Western_Gull",
     "067.Anna_Hummingbird", "068.Ruby_throated_Hummingbird", "069.Rufous_Hummingbird",
     "070.Green_Violetear", "071.Long_tailed_Jaeger", "072.Pomarine_Jaeger",
     "073.Blue_Jay", "074.Florida_Jay", "075.Green_Jay",
     "076.Dark_eyed_Junco", "077.Tropical_Kingbird", "078.Gray_Kingbird",
     "079.Belted_Kingfisher", "080.Green_Kingfisher", "081.Pied_Kingfisher",
     "082.Ringed_Kingfisher", "083.White_breasted_Kingfisher", "084.Red_legged_Kittiwake",
     "085.Horned_Lark", "086.Pacific_Loon", "087.Mallard",
     "088.Western_Meadowlark", "089.Hooded_Merganser", "090.Red_breasted_Merganser",
     "091.Mockingbird", "092.Nighthawk", "093.Clark_Nutcracker",
     "094.White_breasted_Nuthatch", "095.Baltimore_Oriole", "096.Hooded_Oriole",
     "097.Orchard_Oriole", "098.Scott_Oriole", "099.Ovenbird",
     "100.Brown_Pelican", "101.White_Pelican", "102.Western_Wood_Pewee",
     "103.Sayornis", "104.American_Pipit", "105.Whip_poor_Will",
     "106.Horned_Puffin", "107.Common_Raven", "108.White_necked_Raven",
     "109.American_Redstart", "110.Geococcyx", "111.Loggerhead_Shrike",
     "112.Great_Grey_Shrike", "113.Baird_Sparrow", "114.Black_throated_Sparrow",
     "115.Brewer_Sparrow", "116.Chipping_Sparrow", "117.Clay_colored_Sparrow",
     "118.House_Sparrow", "119.Field_Sparrow", "120.Fox_Sparrow",
     "121.Grasshopper_Sparrow", "122.Harris_Sparrow", "123.Henslow_Sparrow",
     "124.Le_Conte_Sparrow", "125.Lincoln_Sparrow", "126.Nelson_Sharp_tailed_Sparrow",
     "127.Savannah_Sparrow", "128.Seaside_Sparrow", "129.Song_Sparrow",
     "130.Tree_Sparrow", "131.Vesper_Sparrow", "132.White_crowned_Sparrow",
     "133.White_throated_Sparrow", "134.Cape_Glossy_Starling", "135.Bank_Swallow",
     "136.Barn_Swallow", "137.Cliff_Swallow", "138.Tree_Swallow",
     "139.Scarlet_Tanager", "140.Summer_Tanager", "141.Artic_Tern",
     "142.Black_Tern", "143.Caspian_Tern", "144.Common_Tern",
     "145.Elegant_Tern", "146.Forsters_Tern", "147.Least_Tern",
     "148.Green_tailed_Towhee", "149.Brown_Thrasher", "150.Sage_Thrasher",
     "151.Black_capped_Vireo", "152.Blue_headed_Vireo", "153.Philadelphia_Vireo",
     "154.Red_eyed_Vireo", "155.Warbling_Vireo", "156.White_eyed_Vireo",
     "157.Yellow_throated_Vireo", "158.Bay_breasted_Warbler", "159.Black_and_white_Warbler",
     "160.Black_throated_Blue_Warbler", "161.Blue_winged_Warbler", "162.Canada_Warbler",
     "163.Cape_May_Warbler", "164.Cerulean_Warbler", "165.Chestnut_sided_Warbler",
     "166.Golden_winged_Warbler", "167.Hooded_Warbler", "168.Kentucky_Warbler",
     "169.Magnolia_Warbler", "170.Mourning_Warbler", "171.Myrtle_Warbler",
     "172.Nashville_Warbler", "173.Orange_crowned_Warbler", "174.Palm_Warbler",
     "175.Pine_Warbler", "176.Prairie_Warbler", "177.Prothonotary_Warbler",
     "178.Swainson_Warbler", "179.Tennessee_Warbler", "180.Wilson_Warbler",
     "181.Worm_eating_Warbler", "182.Yellow_Warbler", "183.Northern_Waterthrush",
     "184.Louisiana_Waterthrush", "185.Bohemian_Waxwing", "186.Cedar_Waxwing",
     "187.American_Three_toed_Woodpecker", "188.Pileated_Woodpecker", "189.Red_bellied_Woodpecker",
     "190.Red_cockaded_Woodpecker", "191.Red_headed_Woodpecker", "192.Downy_Woodpecker",
     "193.Bewick_Wren", "194.Cactus_Wren", "195.Carolina_Wren",
     "196.House_Wren", "197.Marsh_Wren", "198.Rock_Wren",
     "199.Winter_Wren", "200.Common_Yellowthroat" >>

\* list(IMAGE_CLASS.values()): the class names _info declares
CubLabelNames == IMAGE_CLASS

\* Path(data_path["image"]) / "CUB_200_2011", a pathlib.Path as its sequence of parts
CubRoot == <<"extracted", "image", "CUB_200_2011">>

\* Path(image_meta.parent, 'images', x): x is the relative path of one line of images.txt
CubImagePath(x) == CubRoot \o <<"images">> \o x

\* Path.name
PathName(path) == path[Len(path)]

\* a DataFrame: its rows in order, each under its index label
DataFrame(rows) == [k \in 1..Len(rows) |-> [index |-> k - 1, row |-> rows[k]]]

\* FilterIsTrain with a fault: the rows whose flag is v or more
FilterIsTrainAtLeast(df, v) == SelectSeq(df, LAMBDA e : e.row.is_train >= v)

\* df[df['is_train'] == v]: the rows whose flag is v, under the index labels they had
FilterIsTrain(df, v) == SelectSeq(df, LAMBDA e : e.row.is_train = v)

\* the rows of right that match one row of left on the column, each joined to it
MatchRows(lrow, right, on) ==
  LET m == SelectSeq(right, LAMBDA e : e.row[on] = lrow[on])
  IN [k \in 1..Len(m) |-> lrow @@ m[k].row]

RECURSIVE MergeRows(_, _, _)
MergeRows(left, right, on) ==
  IF left = <<>> THEN <<>>
  ELSE MatchRows(Head(left).row, right, on) \o MergeRows(Tail(left), right, on)

\* pd.merge(left, right, on=on): the inner join, in the order of the left rows, under a new index
Merge(left, right, on) == DataFrame(MergeRows(left, right, on))

\* df.drop(columns=[col])
DropColumn(df, col) ==
  [k \in 1..Len(df) |->
     [index |-> df[k].index, row |-> [c \in (DOMAIN df[k].row) \ {col} |-> df[k].row[c]]]]

\* file names of images, in sorted order
ImageNames == <<"a.jpg", "b.jpg">>

RECURSIVE TextRows(_)
\* the rows of df_text: one per caption of each item of text_data['dataset']
TextRows(items) ==
  IF items = <<>> THEN <<>>
  ELSE [j \in 1..Len(Head(items).captions) |->
          [ image_name |-> Head(items).filename,
            en_caption |-> Head(items).captions[j].english,
            id_caption |-> Head(items).captions[j].indo ]] \o TextRows(Tail(items))

\* the values of one column over the rows of one group, in row order
AggList(df, name, col) ==
  LET g == SelectSeq(df, LAMBDA e : e.row.image_name = name)
  IN [k \in 1..Len(g) |-> g[k].row[col]]

\* df_text.groupby('image_name').agg(list).reset_index(): one row per image name, in sorted
\* order of the names, its captions gathered into lists
GroupedText(df_text) ==
  LET present == SelectSeq(ImageNames, LAMBDA n : \E k \in 1..Len(df_text) : df_text[k].row.image_name = n)
  IN DataFrame([k \in 1..Len(present) |->
                  [ image_name |-> present[k],
                    en_caption |-> AggList(df_text, present[k], "en_caption"),
                    id_caption |-> AggList(df_text, present[k], "id_caption") ]])

\* df_image with its image_path and image_name columns
CubImageFrame(images) ==
  DataFrame([k \in 1..Len(images) |->
               [ image_id |-> images[k].image_id,
                 image_path |-> CubImagePath(images[k].image_path),
                 image_name |-> PathName(CubImagePath(images[k].image_path)) ]])

\* the merged df of _split_generators
CubJoin(t) ==
  Merge(Merge(DropColumn(Merge(CubImageFrame(t.images),
                               GroupedText(DataFrame(TextRows(t.text))), "image_name"),
                         "image_name"),
              DataFrame(t.labels), "image_id"),
        DataFrame(t.split), "image_id")

CubSplitGeneratorList(df) ==
  << [name |-> "train", gen_kwargs |-> [data |-> FilterIsTrain(df, 1), split |-> "train"]],
     [name |-> "test", gen_kwargs |-> [data |-> FilterIsTrain(df, 0), split |-> "test"]] >>

\* the captions list of a source example
CubCaptions(row) ==
  [i \in 1..Len(row.en_caption) |->
     [caption_eng |-> row.en_caption[i], caption_ind |-> row.id_caption[i]]]

\* the example of the source schema
CubSourceExample(row) ==
  [ image_id |-> row.image_id,
    class_id |-> row.class_id,
    image_path |-> row.image_path,
    class_name |-> IMAGE_CLASS[row.class_id],
    captions |-> CubCaptions(row) ]

\* CubImtextExample with a fault: the English caption as texts, the Indonesian as context
CubImtextExampleSwapped(key, row, i) ==
  [ id |-> Str(key),
    image_paths |-> <<row.image_path>>,
    texts |-> row.en_caption[i],
    metadata |-> [ context |-> row.id_caption[i],
                   labels |-> << PyStr(IMAGE_CLASS[row.class_id]) >> ] ]

\* the example of the seacrowd_imtext schema for caption i (from 1) of a row
CubImtextExample(key, row, i) ==
  [ id |-> Str(key),
    image_paths |-> <<row.image_path>>,
    texts |-> row.id_caption[i],
    metadata |-> [ context |-> row.en_caption[i],
                   labels |-> << PyStr(IMAGE_CLASS[row.class_id]) >> ] ]

\* key += 1 after a yield
CubKeyStep(key) == key + 1

RECURSIVE CubRun(_, _, _, _, _)
\* the body of _generate_examples run from caption i of row r until it yields, raises or returns
CubRun(data, sch, r, i, key) ==
  IF sch = "source"
    THEN IF r > Len(data)
           THEN [kind |-> "return", r |-> r, i |-> i, key |-> key, example |-> None]
         ELSE IF data[r].row.class_id \notin DOMAIN IMAGE_CLASS
           THEN [kind |-> "raise", r |-> r, i |-> i, key |-> data[r].index, example |-> "KeyError"]
         ELSE [kind |-> "yield", r |-> r, i |-> i, key |-> data[r].index,
               example |-> CubSourceExample(data[r].row)]
  ELSE IF sch = "seacrowd_imtext"
    THEN IF r > Len(data)
           THEN [kind |-> "return", r |-> r, i |-> i, key |-> key, example |-> None]
         ELSE IF i > Len(data[r].row.id_caption)
           THEN CubRun(data, sch, r + 1, 1, key)
         ELSE IF data[r].row.class_id \notin DOMAIN IMAGE_CLASS
           THEN [kind |-> "raise", r |-> r, i |-> i, key |-> key, example |-> "KeyError"]
         ELSE [kind |-> "yield", r |-> r, i |-> i, key |-> key,
               example |-> CubImtextExample(key, data[r].row, i)]
  ELSE [kind |-> "return", r |-> r, i |-> i, key |-> key, example |-> None]

\* CubBahasaDataset._split_generators
CubSplitGenerators ==
  /\ loader = "cub_bahasa"
  /\ pc = "ready"
  /\ IF TextRows(tables.text) = <<>>
       THEN \* pd.DataFrame([]) has no columns: groupby('image_name') raises KeyError
            /\ pc' = "error"
            /\ err' = "KeyError"
            /\ UNCHANGED <<generators, out, status>>
       ELSE /\ generators' = CubSplitGeneratorList(CubJoin(tables))
            /\ out' = [k \in 1..2 |-> <<>>]
            /\ status' = [k \in 1..2 |-> "pending"]
            /\ pc' = "idle"
            /\ err' = "none"
  /\ UNCHANGED <<loader, schema, task, fs, tables, parquet, cur, gen>>

\* the builder calls _generate_examples(**gen_kwargs) of the next split generator
CubStart ==
  /\ loader = "cub_bahasa"
  /\ pc = "idle"
  /\ cur < Len(generators)
  /\ cur' = cur + 1
  /\ gen' = [ kwargs |-> generators[cur + 1].gen_kwargs,
              r |-> 1, i |-> 1, key |-> 0, suspended |-> FALSE ]
  /\ status' = [status EXCEPT ![cur + 1] = "running"]
  /\ pc' = "running"
  /\ UNCHANGED <<loader, schema, task, fs, tables, parquet, generators, out, err>>

\* one next() on the running generator of CubBahasaDataset._generate_examples
CubNext ==
  /\ loader = "cub_bahasa"
  /\ pc = "running"
  /\ LET r == IF ~gen.suspended
                THEN CubRun(gen.kwargs.data, schema, gen.r, gen.i, gen.key)
              ELSE IF schema = "source"
                THEN CubRun(gen.kwargs.data, schema, gen.r + 1, gen.i, gen.key)
              ELSE CubRun(gen.kwargs.data, schema, gen.r, gen.i + 1, CubKeyStep(gen.key))
     IN /\ gen' = [gen EXCEPT !.r = r.r, !.i = r.i, !.key = r.key,
                              !.suspended = (r.kind = "yield")]
        /\ out' = IF r.kind = "yield"
                    THEN [out EXCEPT ![cur] = Append(@, <<r.key, r.example>>)]
                    ELSE out
        /\ status' = [status EXCEPT ![cur] =
                        CASE r.kind = "yield" -> "running"
                          [] r.kind = "raise" -> "raised"
                          [] OTHER -> "returned"]
        /\ pc' = CASE r.kind = "yield" -> "running"
                   [] r.kind = "raise" -> "error"
                   [] OTHER -> "idle"
        /\ err' = IF r.kind = "raise" THEN r.example ELSE err
  /\ UNCHANGED <<loader, schema, task, fs, tables, parquet, generators, cur>>

NextCub == CubSplitGenerators \/ CubStart \/ CubNext

\* class ids that may stand in image_class_labels.txt: one of IMAGE_CLASS, one outside it
ClassIds == {2, 201}

\* the class directory of image k in images.txt
CubClassDir(k) == IMAGE_CLASS[((k - 1) % 200) + 1]

\* images.txt: MaxImages lines; image k lies in its class directory under one of the file names
CubImages ==
  [k \in 1..MaxImages |->
     [image_id |-> k, image_path |-> <<CubClassDir(k), ImageNames[((k - 1) % Len(ImageNames)) + 1]>>]]

\* a table of image_id and one more column: a line for each image id of dom, in id order
KeyedTable(f, col) ==
  LET ids == SelectSeq([k \in 1..MaxImages |-> k], LAMBDA k : k \in DOMAIN f)
  IN [k \in 1..Len(ids) |-> [image_id |-> ids[k]] @@ (col :> f[ids[k]])]

\* image_class_labels.txt
CubLabelTables ==
  { KeyedTable(f, "class_id") : f \in UNION {[D -> ClassIds] : D \in SUBSET (1..MaxImages)} }

\* train_test_split.txt
CubSplitTables ==
  { KeyedTable(f, "is_train") : f \in UNION {[D -> {0, 1}] : D \in SUBSET (1..MaxImages)} }

\* the captions of item k of the captions json
CubItemCaptions(k, n) ==
  [j \in 1..n |-> [english |-> "en" \o Str(k) \o "_" \o Str(j), indo |-> "id" \o Str(k) \o "_" \o Str(j)]]

\* the captions json: at most one item for each file name, in any order, each with its captions
CubTexts ==
  { [k \in 1..Len(s) |-> [filename |-> s[k][1], captions |-> CubItemCaptions(k, s[k][2])]] :
      s \in { q \in SeqUpTo({ImageNames[n] : n \in 1..Len(ImageNames)} \X (1..MaxCaptions), Len(ImageNames)) :
                \A i, j \in 1..Len(q) : i # j => q[i][1] # q[j][1] } }

InitCub ==
  /\ loader = "cub_bahasa"
  /\ schema \in SchemaStrings("cub_bahasa")
  /\ task = "none"
  /\ fs = <<>>
  /\ tables \in [images : {CubImages}, labels : CubLabelTables, text : CubTexts, split : CubSplitTables]
  /\ parquet = <<>>
  /\ pc = "ready"
  /\ generators = <<>>
  /\ cur = 0
  /\ gen = <<>>
  /\ out = <<>>
  /\ status = <<>>
  /\ err = "none"

SpecCub == InitCub /\ [][NextCub]_vars



---------------------------------------------------------------------------
(* mswc *)

MswcSplitNames == <<"train", "validation", "test">>

\* _SUPPORTED_SCHEMA_STRINGS
SupportedSchemaStrings == <<"seacrowd_sptext">>

\* _URLS[_DATASETNAME][split_name]: the k-th parquet url of a split
MswcUrl(split_name, k) == "ml_spoken_words/" \o split_name \o "/" \o Str(k) \o ".parquet"

\* dl_manager.download_and_extract of one url
MswcLocalPath(url) == "extracted/" \o url

\* dl_manager.download_and_extract(_URLS[_DATASETNAME][split_name]) for a split of n urls
MswcPaths(split_name, n) == [k \in 1..n |-> MswcLocalPath(MswcUrl(split_name, k))]

\* the rows of the parquet table at a path
MswcTable(path, n) ==
  [r \in 1..n |-> [file |-> path \o "#" \o Str(r), keyword |-> "kw" \o Str(r), is_valid |-> TRUE]]

\* the downloads that may be on disk: every split has the same number of paths, the k-th
\* table of every split the same number of rows
MswcDownloads ==
  { [ n |-> Len(rows),
      table |-> [p \in {MswcLocalPath(MswcUrl(MswcSplitNames[s], k)) : s \in 1..3, k \in 1..Len(rows)} |->
                   MswcTable(p, rows[CHOOSE k \in 1..Len(rows) :
                                        \E s \in 1..3 : p = MswcLocalPath(MswcUrl(MswcSplitNames[s], k))])] ] :
      rows \in SeqUpTo(0..MaxRows, MaxPaths) }

\* ToDict with a fault: the dict gets an id entry besides the row's columns
ToDictWithId(row) == [c \in (DOMAIN row) \cup {"id"} |-> IF c = "id" THEN "0" ELSE row[c]]

\* row.to_dict(): the dict of the row's columns
ToDict(row) == [c \in DOMAIN row |-> row[c]]

\* result.append([SplitGenerator(...)]) for each split name
MswcSplitGeneratorList(n) ==
  [s \in 1..Len(MswcSplitNames) |->
     << [name |-> MswcSplitNames[s], gen_kwargs |-> [paths |-> MswcPaths(MswcSplitNames[s], n)]] >>]

\* idx += 1 after a yield
MswcIdxStep(idx) == idx + 1

RECURSIVE MswcRowsReset(_, _, _, _, _)
\* MswcRows with a fault: idx starts again from 0 at each next table
MswcRowsReset(paths, table, p, r, idx) ==
  IF p > Len(paths)
    THEN [kind |-> "end", p |-> p, r |-> r, idx |-> idx, example |-> None]
  ELSE IF r > Len(table[paths[p]])
    THEN MswcRowsReset(paths, table, p + 1, 1, 0)
  ELSE [kind |-> "yield", p |-> p, r |-> r, idx |-> idx, example |-> ToDict(table[paths[p]][r])]

RECURSIVE MswcRows(_, _, _, _, _)
\* the loops over paths and rows, from row r of path p, until a yield or the end of the paths
MswcRows(paths, table, p, r, idx) ==
  IF p > Len(paths)
    THEN [kind |-> "end", p |-> p, r |-> r, idx |-> idx, example |-> None]
  ELSE IF r > Len(table[paths[p]])
    THEN MswcRows(paths, table, p + 1, 1, idx)
  ELSE [kind |-> "yield", p |-> p, r |-> r, idx |-> idx, example |-> ToDict(table[paths[p]][r])]

\* whether the schema selects a branch of _generate_examples (is_schema_found)
MswcSchemaFound(sch) ==
  sch = "source" \/ \E k \in 1..Len(SupportedSchemaStrings) : sch = SupportedSchemaStrings[k]

\* MswcRun with a fault: the unified branch turns the row into a record of the unified
\* speech-text fields
MswcRunModified(paths, table, sch, p, r, idx) ==
  IF ~MswcSchemaFound(sch)
    THEN [kind |-> "raise", p |-> p, r |-> r, idx |-> idx, example |-> "ValueError"]
  ELSE IF sch = "source"
    THEN LET x == MswcRows(paths, table, p, r, idx)
         IN IF x.kind = "yield" THEN x ELSE [x EXCEPT !.kind = "return"]
  ELSE LET x == MswcRows(paths, table, p, r, idx)
       IN IF x.kind = "yield"
            THEN [x EXCEPT !.example = [id |-> Str(x.idx), path |-> x.example.file, text |-> x.example.keyword]]
            ELSE [x EXCEPT !.kind = "return"]

\* the body of _generate_examples run from row r of path p until it yields, raises or
\* returns: the loops of the source branch, or the same loops in the branch of the
\* supported unified schema (which leaves the rows as read), or the ValueError when no
\* branch was taken
MswcRun(paths, table, sch, p, r, idx) ==
  IF ~MswcSchemaFound(sch)
    THEN [kind |-> "raise", p |-> p, r |-> r, idx |-> idx, example |-> "ValueError"]
  ELSE IF sch = "source"
    THEN LET x == MswcRows(paths, table, p, r, idx)
         IN IF x.kind = "yield" THEN x ELSE [x EXCEPT !.kind = "return"]
  ELSE LET x == MswcRows(paths, table, p, r, idx)
       IN IF x.kind = "yield" THEN x ELSE [x EXCEPT !.kind = "return"]

RECURSIVE MswcPairsFrom(_, _, _, _, _, _)
\* the pairs _generate_examples yields from row r of path p on, next() after next()
MswcPairsFrom(paths, table, sch, p, r, idx) ==
  LET x == MswcRun(paths, table, sch, p, r, idx)
  IN IF x.kind = "yield"
       THEN << <<x.idx, x.example>> >> \o MswcPairsFrom(paths, table, sch, x.p, x.r + 1, MswcIdxStep(x.idx))
       ELSE <<>>

\* list(_generate_examples(paths)) under a schema
MswcPairs(paths, table, sch) == MswcPairsFrom(paths, table, sch, 1, 1, 0)

\* MSWC._split_generators
MswcSplitGenerators ==
  /\ loader = "mswc"
  /\ pc = "ready"
  /\ generators' = MswcSplitGeneratorList(parquet.n)
  /\ out' = [k \in 1..Len(MswcSplitNames) |-> <<>>]
  /\ status' = [k \in 1..Len(MswcSplitNames) |-> "pending"]
  /\ pc' = "idle"
  /\ err' = "none"
  /\ UNCHANGED <<loader, schema, task, fs, tables, parquet, cur, gen>>

\* _generate_examples(**gen_kwargs) is called for the split generator held by the next
\* element of the returned list
MswcStart ==
  /\ loader = "mswc"
  /\ pc = "idle"
  /\ cur < Len(generators)
  /\ cur' = cur + 1
  /\ gen' = [ kwargs |-> generators[cur + 1][1].gen_kwargs,
              p |-> 1, r |-> 1, idx |-> 0, suspended |-> FALSE ]
  /\ status' = [status EXCEPT ![cur + 1] = "running"]
  /\ pc' = "running"
  /\ UNCHANGED <<loader, schema, task, fs, tables, parquet, generators, out, err>>

\* one next() on the running generator of MSWC._generate_examples
MswcNext ==
  /\ loader = "mswc"
  /\ pc = "running"
  /\ LET x == IF gen.suspended
                THEN MswcRun(gen.kwargs.paths, parquet.table, schema, gen.p, gen.r + 1, MswcIdxStep(gen.idx))
                ELSE MswcRun(gen.kwargs.paths, parquet.table, schema, gen.p, gen.r, gen.idx)
     IN /\ gen' = [gen EXCEPT !.p = x.p, !.r = x.r, !.idx = x.idx,
                              !.suspended = (x.kind = "yield")]
        /\ out' = IF x.kind = "yield"
                    THEN [out EXCEPT ![cur] = Append(@, <<x.idx, x.example>>)]
                    ELSE out
        /\ status' = [status EXCEPT ![cur] =
                        CASE x.kind = "yield" -> "running"
                          [] x.kind = "raise" -> "raised"
                          [] OTHER -> "returned"]
        /\ pc' = CASE x.kind = "yield" -> "running"
                   [] x.kind = "raise" -> "error"
                   [] OTHER -> "idle"
        /\ err' = IF x.kind = "raise" THEN x.example ELSE err
  /\ UNCHANGED <<loader, schema, task, fs, tables, parquet, generators, cur>>

NextMswc == MswcSplitGenerators \/ MswcStart \/ MswcNext

InitMswc ==
  /\ loader = "mswc"
  /\ schema \in SchemaStrings("mswc")
  /\ task = "none"
  /\ fs = <<>>
  /\ tables = <<>>
  /\ parquet \in MswcDownloads
  /\ pc = "ready"
  /\ generators = <<>>
  /\ cur = 0
  /\ gen = <<>>
  /\ out = <<>>
  /\ status = <<>>
  /\ err = "none"

SpecMswc == InitMswc /\ [][NextMswc]_vars

---------------------------------------------------------------------------
(* the three loaders together *)

Init == InitBurapha \/ InitCub \/ InitMswc

Next == NextBurapha \/ NextCub \/ NextMswc

Spec == Init /\ [][Next]_vars

---------------------------------------------------------------------------
(* Properties *)

\* the keys generator k has yielded, in order
Keys(k) == [i \in 1..Len(out[k]) |-> out[k][i][1]]

\* the examples generator k has yielded, in order
Examples(k) == [i \in 1..Len(out[k]) |-> out[k][i][2]]

\* C1: for every loader and every schema it declares, the keys a split's generator yields
\* are 0, 1, 2, ... in that order: the i-th key (from 1) is i - 1.
C1_KeysSequential ==
  schema \in DeclaredSchemas(loader) =>
    \A k \in DOMAIN out : \A i \in 1..Len(out[k]) : Keys(k)[i] = i - 1

\* C2: with a schema string the loader does not declare, no generator yields a pair and
\* no generator ends normally: generation ends in an error before any pair.
C2_UnknownSchemaFails ==
  schema \notin DeclaredSchemas(loader) =>
    \A k \in DOMAIN out : out[k] = <<>> /\ status[k] # "returned"

\* the image path an example of burapha_th carries
BuraphaImageOf(example) ==
  IF schema = "source" THEN example.image_paths ELSE example.image_paths[1]

\* the paths of the files below a split directory of the download
FilesUnder(root) ==
  IF root \notin DOMAIN fs THEN {}
  ELSE { PathJoin(PathJoin(root, JoinChars(fs[root][k].name)), fs[root][k].files[j]) :
           <<k, j>> \in { p \in (1..Len(fs[root])) \X (1..MaxFiles) : p[2] <= Len(fs[root][p[1]].files) } }

\* C3: in burapha_th every image path yielded for a split is the path of a file of that
\* split's own directory, and when the test split's generator has returned every file of
\* the test directory has been yielded by it.
C3_SplitOwnDirectory ==
  (loader = "burapha_th" /\ schema \in DeclaredSchemas(loader)) =>
    \A k \in DOMAIN out :
      LET root == BuraphaSplitPath(task, generators[k].gen_kwargs.split)
      IN /\ \A i \in 1..Len(out[k]) : BuraphaImageOf(Examples(k)[i]) \in FilesUnder(root)
         /\ (generators[k].gen_kwargs.split = "test" /\ status[k] = "returned") =>
               \A f \in FilesUnder(root) : \E i \in 1..Len(out[k]) : BuraphaImageOf(Examples(k)[i]) = f

\* the item of the captions json for a file name
TextItem(name) ==
  tables.text[CHOOSE k \in 1..Len(tables.text) : tables.text[k].filename = name]

RECURSIVE ExpectedFanOut(_)
\* for the rows of a joined table in order, one entry per caption of the row's image, the
\* captions taken from the image's item of the captions json in the item's order
ExpectedFanOut(data) ==
  IF data = <<>> THEN <<>>
  ELSE LET row == Head(data).row
           caps == TextItem(PathName(row.image_path)).captions
       IN [i \in 1..Len(caps) |-> [path |-> row.image_path, indo |-> caps[i].indo, english |-> caps[i].english]]
            \o ExpectedFanOut(Tail(data))

\* C4: in cub_bahasa under seacrowd_imtext the records of a split are the fan-out of its
\* joined rows: a row whose image has N captions gives N consecutive records with the same
\* one-element image_paths, the i-th of them carrying the i-th Indonesian caption as texts
\* and the i-th English caption as context, and every record's key and id are one more
\* than the previous record's (from 0); a generator that returns has given all N records
\* of every row.
C4_CaptionFanOut ==
  (loader = "cub_bahasa" /\ schema = "seacrowd_imtext") =>
    \A k \in DOMAIN out :
      LET exp == ExpectedFanOut(generators[k].gen_kwargs.data)
      IN /\ Len(out[k]) <= Len(exp)
         /\ \A i \in 1..Len(out[k]) :
              /\ Keys(k)[i] = i - 1
              /\ Examples(k)[i].id = Str(i - 1)
              /\ Examples(k)[i].image_paths = <<exp[i].path>>
              /\ Examples(k)[i].texts = exp[i].indo
              /\ Examples(k)[i].metadata.context = exp[i].english
         /\ status[k] = "returned" => Len(out[k]) = Len(exp)

\* a split of cub_bahasa/seacrowd_imtext has returned after a row with two or more captions
\* gave its records
C4_Witness ==
  /\ loader = "cub_bahasa" /\ schema = "seacrowd_imtext"
  /\ \E k \in DOMAIN out :
       /\ status[k] = "returned"
       /\ Len(generators[k].gen_kwargs.data) >= 1
       /\ Len(generators[k].gen_kwargs.data[1].row.id_caption) >= 2
       /\ Len(out[k]) >= 2
       /\ Examples(k)[1].image_paths = Examples(k)[2].image_paths
       /\ Examples(k)[1].texts # Examples(k)[2].texts

\* the images of images.txt that have a line in both other tables and an item in the captions json
MatchedImages ==
  { k \in 1..Len(tables.images) :
      /\ \E j \in 1..Len(tables.labels) : tables.labels[j].image_id = tables.images[k].image_id
      /\ \E j \in 1..Len(tables.split) : tables.split[j].image_id = tables.images[k].image_id
      /\ \E j \in 1..Len(tables.text) :
            tables.text[j].filename = PathName(CubImagePath(tables.images[k].image_path)) }

\* the number of captions of the images of a set
RECURSIVE CaptionCount(_)
CaptionCount(S) ==
  IF S = {} THEN 0
  ELSE LET k == CHOOSE x \in S : TRUE
       IN Len(TextItem(PathName(CubImagePath(tables.images[k].image_path))).captions)
            + CaptionCount(S \ {k})

\* the image path an example of cub_bahasa carries
CubImageOf(example) ==
  IF schema = "source" THEN example.image_path ELSE example.image_paths[1]

\* C5: in cub_bahasa an image without a caption entry, a label line or a split line gives
\* no record and no error: _split_generators does not fail, every record is of an image
\* found in all four tables, and when both splits have returned under seacrowd_imtext the
\* records of train and test together number the captions of exactly those images.
C5_InnerJoin ==
  loader = "cub_bahasa" =>
    /\ ~(pc = "error" /\ generators = <<>>)
    /\ \A k \in DOMAIN out : \A i \in 1..Len(out[k]) :
          \E m \in MatchedImages : CubImageOf(Examples(k)[i]) = CubImagePath(tables.images[m].image_path)
    /\ (schema = "seacrowd_imtext" /\ status # <<>> /\ (\A k \in DOMAIN status : status[k] = "returned")) =>
          SumSeq([k \in DOMAIN out |-> Len(out[k])]) = CaptionCount(MatchedImages)

\* C6: the burapha_th scan holds every file of every class directory of the scanned root
\* exactly once, in the list of the label that is the first '-'-delimited segment of the
\* directory's name (so also when two directories share that segment).
C6_ScanKeepsEveryFile ==
  (loader = "burapha_th" /\ generators # <<>>) =>
    LET root == BuraphaSplitPath(task, "train")
        d == generators[1].gen_kwargs.filepath
    IN \A k \in 1..Len(fs[root]) : \A j \in 1..Len(fs[root][k].files) :
         LET path == PathJoin(PathJoin(root, JoinChars(fs[root][k].name)), fs[root][k].files[j])
             at == { p \in (1..Len(d)) \X (1..MaxFiles) : p[2] <= Len(d[p[1]].value) /\ d[p[1]].value[p[2]] = path }
         IN /\ Cardinality(at) = 1
            /\ \A p \in at : d[p[1]].key = JoinChars(FirstSegment(fs[root][k].name, "-"))

\* C7: in burapha_th, when the train or the test directory is missing from the download,
\* _split_generators fails: no split generator is returned, no record is yielded, and the
\* run ends in an error.
C7_MissingSplitDirFails ==
  (loader = "burapha_th"
     /\ (BuraphaSplitPath(task, "train") \notin DOMAIN fs \/ BuraphaSplitPath(task, "test") \notin DOMAIN fs)) =>
    /\ generators = <<>>
    /\ out = <<>>
    /\ pc # "ready" => (pc = "error" /\ err = "FileNotFoundError")

\* C8: in burapha_th and cub_bahasa every seacrowd_imtext record's metadata.labels is a
\* one-element list holding the position of the item's class label in the class names
\* _info declares for the config (an integer label code).
C8_LabelsArePositions ==
  (loader \in {"burapha_th", "cub_bahasa"} /\ schema = "seacrowd_imtext") =>
    \A k \in DOMAIN out : \A i \in 1..Len(out[k]) :
      LET ex == Examples(k)[i]
      IN IF loader = "burapha_th"
           THEN LET d == generators[k].gen_kwargs.filepath
                IN \E e \in 1..Len(d) :
                     /\ \E j \in 1..Len(d[e].value) : d[e].value[j] = ex.image_paths[1]
                     /\ ex.metadata.labels = << PyInt(Index(BuraphaLabelNames(task), d[e].key)) >>
           ELSE LET data == generators[k].gen_kwargs.data
                IN \E r \in 1..Len(data) :
                     /\ data[r].row.image_path = ex.image_paths[1]
                     /\ ex.metadata.labels = << PyInt(Index(CubLabelNames, IMAGE_CLASS[data[r].row.class_id])) >>

RECURSIVE Items(_)
\* the (label, file) items of a burapha_th index in its iteration order
Items(d) ==
  IF d = <<>> THEN <<>>
  ELSE [j \in 1..Len(Head(d).value) |-> [key |-> Head(d).key, img |-> Head(d).value[j]]] \o Items(Tail(d))

\* C9: in burapha_th, for every task, the i-th seacrowd_imtext record of a split is built
\* from the i-th item of the index: texts is null, metadata.context is null, image_paths
\* is the one-element list of the item's file path, metadata.labels holds the numeric code
\* of the item's directory label; a generator that returns has given a record for every item.
C9_BuraphaImtextRecord ==
  (loader = "burapha_th" /\ schema = "seacrowd_imtext") =>
    \A k \in DOMAIN out :
      LET items == Items(generators[k].gen_kwargs.filepath)
      IN /\ Len(out[k]) <= Len(items)
         /\ \A i \in 1..Len(out[k]) :
              /\ Examples(k)[i].texts = None
              /\ Examples(k)[i].metadata.context = None
              /\ Examples(k)[i].image_paths = <<items[i].img>>
              /\ Examples(k)[i].metadata.labels = << PyInt(Index(BuraphaLabelNames(task), items[i].key)) >>
         /\ status[k] = "returned" => Len(out[k]) = Len(items)

\* a split of burapha_th/seacrowd_imtext has returned after yielding two or more records
C9_Witness ==
  /\ loader = "burapha_th" /\ schema = "seacrowd_imtext"
  /\ \E k \in DOMAIN out : status[k] = "returned" /\ Len(out[k]) >= 2

\* whether the label of an item lacks from the enumeration of its task: the item of a
\* burapha_th index, or the row of a cub_bahasa table
BadLabel(x) ==
  IF loader = "burapha_th"
    THEN ~Contains(BuraphaLabelNames(task), x.key)
    ELSE x.row.class_id \notin DOMAIN IMAGE_CLASS

\* the items generator k goes through, in order
ItemsOf(k) ==
  IF loader = "burapha_th"
    THEN Items(generators[k].gen_kwargs.filepath)
    ELSE generators[k].gen_kwargs.data

\* the records item x gives when its label is in the enumeration
RecordsOf(x) ==
  IF loader = "cub_bahasa" /\ schema = "seacrowd_imtext" THEN Len(x.row.id_caption) ELSE 1

\* the lookup error of the loader: list.index raises ValueError, a dict lookup KeyError
LookupError == IF loader = "burapha_th" THEN "ValueError" ELSE "KeyError"

\* C10: in burapha_th and cub_bahasa under a declared schema, when an item's label is not
\* in its task's enumeration, generation aborts at the first such item with a lookup
\* error: the generator yields the records of the items before it and nothing for it or
\* any later item, it never returns normally, and when it has ended it has raised the
\* lookup error after exactly the records of the items before.
C10_UnknownLabelAborts ==
  (loader \in {"burapha_th", "cub_bahasa"} /\ schema \in DeclaredSchemas(loader)) =>
    \A k \in DOMAIN out :
      LET items == ItemsOf(k)
          bad == { i \in 1..Len(items) : BadLabel(items[i]) }
      IN bad # {} =>
           LET b == CHOOSE i \in bad : \A j \in bad : i <= j
               before == SumSeq([i \in 1..(b - 1) |-> RecordsOf(items[i])])
           IN /\ Len(out[k]) <= before
              /\ status[k] # "returned"
              /\ status[k] = "raised" => (Len(out[k]) = before /\ err = LookupError /\ pc = "error")

\* a generator has raised the lookup error at an item with an unknown label after yielding
\* the record of an item before it
C10_Witness ==
  /\ loader \in {"burapha_th", "cub_bahasa"} /\ schema \in DeclaredSchemas(loader)
  /\ \E k \in DOMAIN out :
       /\ status[k] = "raised"
       /\ Len(out[k]) >= 1
       /\ \E i \in 1..Len(ItemsOf(k)) : BadLabel(ItemsOf(k)[i])

\* no value occurs twice in label_chr_dig or in label_syl
EnumerationsDistinct == NoRepeat(label_chr_dig) /\ NoRepeat(label_syl)

\* C11: in burapha_th under the source schema, for every task, the record of an item stored
\* under directory label L carries a one-element label list [c], c an integer position of
\* the task's enumeration whose entry is exactly L, and c is the only such position; no
\* enumeration holds a value twice.
C11_SourceLabelRoundTrip ==
  /\ EnumerationsDistinct
  /\ (loader = "burapha_th" /\ schema = "source") =>
       \A k \in DOMAIN out :
         LET items == Items(generators[k].gen_kwargs.filepath)
             names == BuraphaLabelNames(task)
         IN \A i \in 1..Len(out[k]) :
              LET label == Examples(k)[i].label
              IN /\ i <= Len(items)
                 /\ Len(label) = 1
                 /\ label[1][1] = "int"
                 /\ label[1][2] \in 0..(Len(names) - 1)
                 /\ names[label[1][2] + 1] = items[i].key
                 /\ \A c \in 0..(Len(names) - 1) : names[c + 1] = items[i].key => c = label[1][2]

\* a split of burapha_th/source has yielded the records of two items stored under
\* different directory labels
C11_Witness ==
  /\ loader = "burapha_th" /\ schema = "source"
  /\ \E k \in DOMAIN out :
       /\ Len(out[k]) >= 2
       /\ \E i, j \in 1..Len(out[k]) : Examples(k)[i].label # Examples(k)[j].label

\* the paths generator k of mswc is given
MswcPathsOf(k) == generators[k][1].gen_kwargs.paths

RECURSIVE TableRows(_)
\* the rows of the tables at the paths of a list, table after table
TableRows(paths) ==
  IF paths = <<>> THEN <<>> ELSE parquet.table[Head(paths)] \o TableRows(Tail(paths))

\* whether the i-th source record of generator k carries the values of the i-th input item:
\* the file path of the burapha_th item; image id, class id, image path and caption pairs
\* of the cub_bahasa row; every column of the mswc row
SourceFieldsKept(k, i) ==
  LET ex == Examples(k)[i]
  IN CASE loader = "burapha_th" ->
            LET items == Items(generators[k].gen_kwargs.filepath)
            IN i <= Len(items) /\ ex.image_paths = items[i].img
       [] loader = "cub_bahasa" ->
            LET data == generators[k].gen_kwargs.data
            IN /\ i <= Len(data)
               /\ ex.image_id = data[i].row.image_id
               /\ ex.class_id = data[i].row.class_id
               /\ ex.image_path = data[i].row.image_path
               /\ Len(ex.captions) = Len(data[i].row.en_caption)
               /\ \A j \in 1..Len(ex.captions) :
                     /\ ex.captions[j].caption_eng = data[i].row.en_caption[j]
                     /\ ex.captions[j].caption_ind = data[i].row.id_caption[j]
       [] OTHER ->
            LET rows == TableRows(MswcPathsOf(k))
            IN /\ i <= Len(rows)
               /\ \A c \in DOMAIN rows[i] : c \in DOMAIN ex /\ ex[c] = rows[i][c]

\* C12 as claimed: under the source schema every record of every loader carries the values
\* of its input item and an id field whose value is the record's position in the yielded
\* sequence (0 for the first record, one more for each next).
C12_SourceRecordSequentialId ==
  schema = "source" =>
    \A k \in DOMAIN out : \A i \in 1..Len(out[k]) :
      /\ SourceFieldsKept(k, i)
      /\ "id" \in DOMAIN Examples(k)[i]
      /\ Examples(k)[i].id = Str(i - 1)

\* C12 amended: under the source schema every record carries the values of its input item;
\* the records of burapha_th carry an id field, the decimal string of the record's position
\* from 0, and the records of cub_bahasa and mswc carry no id field.
C12_SourceRecordFields ==
  schema = "source" =>
    \A k \in DOMAIN out : \A i \in 1..Len(out[k]) :
      /\ SourceFieldsKept(k, i)
      /\ IF loader = "burapha_th"
            THEN "id" \in DOMAIN Examples(k)[i] /\ Examples(k)[i].id = Str(i - 1)
            ELSE "id" \notin DOMAIN Examples(k)[i]

\* a split of mswc/source has returned after yielding two or more records, none with an id
\* field
C12_Witness ==
  /\ loader = "mswc" /\ schema = "source"
  /\ \E k \in DOMAIN out :
       /\ status[k] = "returned"
       /\ Len(out[k]) >= 2
       /\ "id" \notin DOMAIN Examples(k)[2]

\* the image paths generator k of burapha_th has yielded, in order
ImagePaths(k) == [i \in 1..Len(out[k]) |-> BuraphaImageOf(Examples(k)[i])]

\* the label list the i-th record of generator k of burapha_th carries
BuraphaLabelOf(k, i) ==
  IF schema = "source" THEN Examples(k)[i].label ELSE Examples(k)[i].metadata.labels

RECURSIVE FileLists(_)
\* the file lists of a burapha_th index one after the other, in the insertion order of its labels
FileLists(d) ==
  IF d = <<>> THEN <<>> ELSE Head(d).value \o FileLists(Tail(d))

\* whether every label of a burapha_th index is in the task's enumeration
KnownLabels(d) ==
  \A e \in 1..Len(d) : Contains(BuraphaLabelNames(task), d[e].key)

\* what generator k of burapha_th has yielded so far is the head of the concatenated file
\* lists, the records of one label side by side; it has not raised when every label is
\* known, and when it has returned it has yielded as many records as the lists hold files
BuraphaOrderKept(k) ==
  LET d == generators[k].gen_kwargs.filepath
      files == FileLists(d)
  IN /\ Len(out[k]) <= Len(files)
     /\ ImagePaths(k) = SubSeq(files, 1, Len(out[k]))
     /\ \A i, j \in 1..Len(out[k]) :
           (i < j /\ BuraphaLabelOf(k, i) = BuraphaLabelOf(k, j)) =>
              \A m \in i..j : BuraphaLabelOf(k, m) = BuraphaLabelOf(k, i)
     /\ KnownLabels(d) => status[k] # "raised"
     /\ status[k] = "returned" =>
           Len(out[k]) = SumSeq([e \in 1..Len(d) |-> Len(d[e].value)])

\* a step of the running generator of burapha_th, under a declared schema and over an
\* index of known labels, yields one more record or, every file yielded, makes it return
BuraphaAdvances ==
  (/\ schema \in DeclaredSchemas(loader)
   /\ pc = "running"
   /\ KnownLabels(generators[cur].gen_kwargs.filepath))
    => \/ /\ status'[cur] = "running"
          /\ Len(out'[cur]) = Len(out[cur]) + 1
       \/ /\ status'[cur] = "returned"
          /\ out'[cur] = out[cur]
          /\ ImagePaths(cur) = FileLists(generators[cur].gen_kwargs.filepath)

\* C13: in burapha_th, for either declared schema, the image paths a generator yields are
\* the index's file lists one after the other, labels in insertion order and files in list
\* order, one record per file and the records of a label contiguous; and generation ends
\* after the last file: every next() on a generator (the labels of its index being in the
\* enumeration) gives the next file's record or, all files given, returns, with as many
\* records as the sum of the list lengths.
C13_FilesInIndexOrder ==
  /\ [](schema \in DeclaredSchemas(loader) => \A k \in DOMAIN out : BuraphaOrderKept(k))
  /\ [][BuraphaAdvances]_vars

\* a split of burapha_th has returned after yielding the files of two labels, two or more
\* of them of one label
C13_Witness ==
  /\ loader = "burapha_th" /\ schema \in DeclaredSchemas(loader)
  /\ \E k \in DOMAIN out :
       /\ status[k] = "returned"
       /\ Len(out[k]) >= 3
       /\ Len(generators[k].gen_kwargs.filepath) >= 2
       /\ BuraphaLabelOf(k, 1) # BuraphaLabelOf(k, Len(out[k]))

\* C14: in mswc under a declared schema, a generator given a list of table paths yields
\* the rows of the tables, table after table in the order of the list and rows in table
\* order, each row once, with ids 0, 1, 2, ... running on across the tables (the first row
\* of a table gets the id after the last row of the table before); a generator that
\* returns has yielded as many records as the tables have rows, the last with id that
\* number minus 1.
C14_RowsAcrossTables ==
  (loader = "mswc" /\ schema \in DeclaredSchemas(loader)) =>
    \A k \in DOMAIN out :
      LET paths == MswcPathsOf(k)
          rows == TableRows(paths)
          total == SumSeq([p \in 1..Len(paths) |-> Len(parquet.table[paths[p]])])
      IN /\ Len(out[k]) <= total
         /\ \A i \in 1..Len(out[k]) : Keys(k)[i] = i - 1 /\ Examples(k)[i] = rows[i]
         /\ \A p \in 2..Len(paths) :
               LET before == SumSeq([q \in 1..(p - 1) |-> Len(parquet.table[paths[q]])])
               IN (Len(out[k]) > before /\ before > 0 /\ parquet.table[paths[p]] # <<>>) =>
                     /\ Examples(k)[before + 1] = parquet.table[paths[p]][1]
                     /\ Keys(k)[before + 1] = Keys(k)[before] + 1
         /\ status[k] # "raised"
         /\ status[k] = "returned" =>
               /\ Len(out[k]) = total
               /\ total > 0 => Keys(k)[total] = total - 1

\* a split of mswc has returned after yielding the rows of two tables, each of two or more
\* rows
C14_Witness ==
  /\ loader = "mswc" /\ schema \in DeclaredSchemas(loader)
  /\ \E k \in DOMAIN out :
       /\ status[k] = "returned"
       /\ Len(MswcPathsOf(k)) >= 2
       /\ \A p \in 1..2 : Len(parquet.table[MswcPathsOf(k)[p]]) >= 2
       /\ Len(out[k]) >= 4

\* C15: in mswc, _split_generators returns three elements, one for each of train,
\* validation and test in that order, the k-th being itself the split generator of the
\* k-th split name (not a list holding it) whose gen_kwargs carry the resolved paths of
\* that split's URLs and of no other split.
C15_SplitGeneratorsFlat ==
  (loader = "mswc" /\ generators # <<>>) =>
    /\ Len(generators) = Len(MswcSplitNames)
    /\ \A k \in 1..Len(generators) :
          generators[k] = [ name |-> MswcSplitNames[k],
                            gen_kwargs |-> [paths |-> MswcPaths(MswcSplitNames[k], parquet.n)] ]

\* how many times a row of a table occurs in a table
Occurrences(e, data) == Cardinality({ m \in 1..Len(data) : data[m] = e })

\* C16: in cub_bahasa the train and test splits partition the joined table: a joined row
\* is in the train split exactly when its is_train flag is 1 and in the test split exactly
\* when it is 0, each such row once and in one split only, no image in both splits, no row
\* in a split that is not a joined row; and when both generators have returned under the
\* source schema their records together number the joined rows.
C16_SplitsPartition ==
  (loader = "cub_bahasa" /\ generators # <<>>) =>
    LET df == CubJoin(tables)
        train == generators[1].gen_kwargs.data
        test == generators[2].gen_kwargs.data
    IN /\ generators[1].name = "train" /\ generators[2].name = "test"
       /\ \A e \in 1..Len(df) :
             /\ Occurrences(df[e], train) = (IF df[e].row.is_train = 1 THEN 1 ELSE 0)
             /\ Occurrences(df[e], test) = (IF df[e].row.is_train = 0 THEN 1 ELSE 0)
             /\ df[e].row.is_train \in {0, 1} =>
                   Occurrences(df[e], train) + Occurrences(df[e], test) = 1
       /\ \A a \in 1..Len(train) : \A b \in 1..Len(test) :
             train[a].row.image_id # test[b].row.image_id
       /\ \A a \in 1..Len(train) : Occurrences(train[a], df) = 1
       /\ \A b \in 1..Len(test) : Occurrences(test[b], df) = 1
       /\ (schema = "source" /\ status[1] = "returned" /\ status[2] = "returned") =>
             Len(out[1]) + Len(out[2]) = Len(df)

\* both splits of cub_bahasa/source have returned, each after yielding the record of a
\* joined row
C16_Witness ==
  /\ loader = "cub_bahasa" /\ schema = "source" /\ generators # <<>>
  /\ status[1] = "returned" /\ status[2] = "returned"
  /\ Len(out[1]) >= 1 /\ Len(out[2]) >= 1
  /\ Len(CubJoin(tables)) >= 2

\* the other declared schema of mswc
OtherSchema == IF schema = "source" THEN "seacrowd_sptext" ELSE "source"

=============================================================================
